---- MODULE Spec2Model ----
(***************************************************************************)
(* Model of execexam/main.py: the report extraction functions              *)
(* (path_to_string, extract_details, extract_test_run_details,             *)
(* extract_failing_test_details, is_failing_test_details_empty) and the    *)
(* run command.                                                            *)
(*                                                                         *)
(* A Python str is a sequence of one-character strings, a dict is the      *)
(* sequence of its items in insertion order, a pathlib.Path is its anchor  *)
(* and its names.  A call either returns a value or raises.                *)
(***************************************************************************)
EXTENDS Integers, Sequences, FiniteSets, TLC

VARIABLES pc, details, report, path_name, ret, empty,
          test_run_details, failing_test_details, failing_test_path,
          return_code, console, exit_code

vars == <<pc, details, report, path_name, ret, empty,
          test_run_details, failing_test_details, failing_test_path,
          return_code, console, exit_code>>

\* ------------------------------------------------------------------ bounds
MaxSummary == 3
MaxTests == 2
MaxParts == 6

\* ----------------------------------------------------------- str literals
NL == "\n"
S_Details == <<"D", "e", "t", "a", "i", "l", "s", ":", " ">>
S_CommaSpace == <<",", " ">>
S_Space == <<" ">>
S_Slash == <<"/">>
S_Dot == <<".">>
S_Marker == <<"<", ".", ".", ".", ">">>
S_Name == <<" ", " ", "N", "a", "m", "e", ":", " ">>
S_Path == <<" ", " ", "P", "a", "t", "h", ":", " ">>
S_LineNumber == <<" ", " ", "L", "i", "n", "e", " ", "n", "u", "m", "b", "e", "r", ":", " ">>
S_Message == <<" ", " ", "M", "e", "s", "s", "a", "g", "e", ":", " ">>
S_passed == <<"p", "a", "s", "s", "e", "d">>
S_failed == <<"f", "a", "i", "l", "e", "d">>
S_error == <<"e", "r", "r", "o", "r">>
S_total == <<"t", "o", "t", "a", "l">>
S_collected == <<"c", "o", "l", "l", "e", "c", "t", "e", "d">>

Digits == <<"0", "1", "2", "3", "4", "5", "6", "7", "8", "9">>

\* f"{n}" for a non-negative int
RECURSIVE Str(_)
Str(n) == IF n < 10 THEN <<Digits[n + 1]>>
          ELSE Str(n \div 10) \o <<Digits[(n % 10) + 1]>>

\* sep.join(items)
RECURSIVE Join(_, _)
Join(items, sep) ==
  IF Len(items) = 0 THEN <<>>
  ELSE IF Len(items) = 1 THEN items[1]
  ELSE items[1] \o sep \o Join(Tail(items), sep)

\* s.split(sep): cut at each occurrence of sep, scanning from the left
Matches(s, sep, from) ==
  {i \in from..(Len(s) - Len(sep) + 1) : SubSeq(s, i, i + Len(sep) - 1) = sep}

RECURSIVE SplitFrom(_, _, _)
SplitFrom(s, sep, from) ==
  LET ms == Matches(s, sep, from) IN
    IF ms = {} THEN <<SubSeq(s, from, Len(s))>>
    ELSE LET m == CHOOSE i \in ms : \A j \in ms : i <= j
         IN <<SubSeq(s, from, m - 1)>> \o SplitFrom(s, sep, m + Len(sep))

Split(s, sep) == SplitFrom(s, sep, 1)

SeqsUpTo(S, n) == UNION {[1..k -> S] : k \in 0..n}

\* ------------------------------------------------------------ call results
Return(v) == [kind |-> "return", value |-> v]
Raise(exc, arg) == [kind |-> "raise", exc |-> exc, arg |-> arg]
NotCalled == [kind |-> "none"]

\* ------------------------------------------------------------ pathlib.Path
NoneValue == [type |-> "NoneType"]
MkPath(anchor, names) == [type |-> "Path", anchor |-> anchor, names |-> names]

IsName(x) == x # <<>> /\ x # S_Dot

\* the names of one constructor argument: empty and "." components drop out
NamesOf(arg) == SelectSeq(Split(arg, S_Slash), IsName)

\* Path(*args): an absolute argument discards what precedes it
RECURSIVE PathFrom(_, _, _)
PathFrom(args, i, acc) ==
  IF i > Len(args) THEN acc
  ELSE IF Len(args[i]) > 0 /\ args[i][1] = "/"
       THEN PathFrom(args, i + 1, MkPath(S_Slash, NamesOf(args[i])))
       ELSE PathFrom(args, i + 1, MkPath(acc.anchor, acc.names \o NamesOf(args[i])))

Path(args) == PathFrom(args, 1, MkPath(<<>>, <<>>))

\* path.parts
Parts(p) == IF p.anchor # <<>> THEN <<p.anchor>> \o p.names ELSE p.names

\* path.as_posix()
as_posix(p) == IF p.anchor = <<>> /\ p.names = <<>> THEN S_Dot
               ELSE p.anchor \o Join(p.names, S_Slash)

\* parts[-n:]
LastN(parts, n) ==
  IF n = 0 \/ n >= Len(parts) THEN parts
  ELSE SubSeq(parts, Len(parts) - n + 1, Len(parts))

DefaultLevels == 4

\* mutant: elides at exactly `levels` parts too
path_to_string_ge(p, levels) ==
  LET parts == Parts(p) IN
    IF Len(parts) >= levels
    THEN as_posix(Path(<<S_Marker>> \o LastN(parts, levels)))
    ELSE as_posix(p)

path_to_string(p, levels) ==
  LET parts == Parts(p) IN
    IF Len(parts) > levels
    THEN as_posix(Path(<<S_Marker>> \o LastN(parts, levels)))
    ELSE as_posix(p)

\* --------------------------------------------------------- extract_details
Item(key, value) == [key |-> key, value |-> value]

RECURSIVE FormatItems(_)
FormatItems(items) ==
  IF Len(items) = 0 THEN <<>>
  ELSE <<Str(items[1].value) \o S_Space \o items[1].key>> \o FormatItems(Tail(items))

\* mutant: leaves out the entries whose value is 0
NonZero(item) == item.value # 0
extract_details_dropzero(d) ==
  S_Details \o Join(FormatItems(SelectSeq(d, NonZero)), S_CommaSpace)

extract_details(d) == S_Details \o Join(FormatItems(d), S_CommaSpace)

extract_test_run_details(r) == extract_details(r.summary)

\* --------------------------------------------- extract_failing_test_details
\* a dict key that is absent
Missing == [present |-> FALSE]
Crash(path, lineno, message) ==
  [present |-> TRUE, path |-> path, lineno |-> lineno, message |-> message]
Call(crash) == [present |-> TRUE, crash |-> crash]
Test(outcome, nodeid, call) == [outcome |-> outcome, nodeid |-> nodeid, call |-> call]

Acc(str, path) == [str |-> str, path |-> path]

\* mutant: the Line number line before the Path line
failing_lines_swapped(acc, test) ==
  LET failing_test_crash == test.call.crash
      path == Path(<<failing_test_crash.path>>)
  IN Return(Acc(acc.str
                  \o S_Name \o test.nodeid \o <<NL>>
                  \o S_LineNumber \o Str(failing_test_crash.lineno) \o <<NL>>
                  \o S_Path \o path_to_string(path, 4) \o <<NL>>
                  \o S_Message \o failing_test_crash.message \o <<NL>>,
                path))

\* the four lines a failed test with crash data adds, and its crash path
failing_lines(acc, test) ==
  LET failing_test_crash == test.call.crash
      path == Path(<<failing_test_crash.path>>)
  IN Return(Acc(acc.str
                  \o S_Name \o test.nodeid \o <<NL>>
                  \o S_Path \o path_to_string(path, 4) \o <<NL>>
                  \o S_LineNumber \o Str(failing_test_crash.lineno) \o <<NL>>
                  \o S_Message \o failing_test_crash.message \o <<NL>>,
                path))

\* mutant: a failed test without crash data is passed over
failing_block_skip(acc, test) ==
  IF ~test.call.present \/ ~test.call.crash.present THEN Return(acc)
  ELSE failing_lines(acc, test)

\* the body of the if: test["call"] and call["crash"] raise when absent
failing_block(acc, test) ==
  IF ~test.call.present THEN Raise("KeyError", "call")
  ELSE IF ~test.call.crash.present THEN Raise("KeyError", "crash")
  ELSE failing_lines(acc, test)

\* mutant: every test that did not pass is taken for a failed one
failing_step_notpassed(acc, test) ==
  IF test.outcome # S_passed THEN failing_block(acc, test) ELSE Return(acc)

\* the body of the for loop over one test
failing_step(acc, test) ==
  IF test.outcome = S_failed THEN failing_block(acc, test) ELSE Return(acc)

RECURSIVE failing_loop(_, _, _)
failing_loop(tests, i, acc) ==
  IF i > Len(tests) THEN Return(<<acc.str, acc.path>>)
  ELSE LET s == failing_step(acc, tests[i])
       IN IF s.kind = "raise" THEN s ELSE failing_loop(tests, i + 1, s.value)

extract_failing_test_details(r) == failing_loop(r.tests, 1, Acc(<<NL>>, NoneValue))

\* mutant: tests for the empty string
is_failing_test_details_empty_blank(d) == IF d = <<>> THEN TRUE ELSE FALSE

is_failing_test_details_empty(d) == IF d = <<NL>> THEN TRUE ELSE FALSE

\* ------------------------------------------------------------------ inputs
Keys == {S_passed, S_failed, S_total}
Counts == {0, 2, 13}

DistinctKeys(d) == \A i, j \in 1..Len(d) : d[i].key = d[j].key => i = j

Summaries ==
  {d \in SeqsUpTo({Item(k, v) : k \in Keys, v \in Counts}, MaxSummary) : DistinctKeys(d)}

Outcomes == {S_passed, S_failed, S_error}
NodeIds == {<<"t", ".", "p", "y", ":", ":", "f">>,
            <<"t", ".", "p", "y", ":", ":", "g">>,
            <<"d", "/", "t", ".", "p", "y", ":", ":", "C", ":", ":", "g">>}
Crashes ==
  {Crash(<<"t", ".", "p", "y">>, 10, <<"E">>),
   Crash(<<"/", "h", "/", "u", "/", "p", "/", "q", "/", "t", ".", "p", "y">>, 7,
         <<"a", NL, "b">>)}
Calls == {Missing, Call(Missing)} \cup {Call(c) : c \in Crashes}
TestRecords == {Test(o, n, c) : o \in Outcomes, n \in NodeIds, c \in Calls}
\* a report names each test once
DistinctNodeIds(ts) == \A i, j \in 1..Len(ts) : ts[i].nodeid = ts[j].nodeid => i = j
TestSeqs == {ts \in SeqsUpTo(TestRecords, MaxTests) : DistinctNodeIds(ts)}

PathNames == {<<"a">>, <<"b", "c">>}
Paths == {MkPath(a, n) : a \in {<<>>, S_Slash}, n \in SeqsUpTo(PathNames, MaxParts)}

\* the summary the report plugin derives from the tests:
\* Counter of the outcomes, then total and collected
RECURSIVE CountOutcome(_, _)
CountOutcome(tests, o) ==
  IF Len(tests) = 0 THEN 0
  ELSE (IF tests[1].outcome = o THEN 1 ELSE 0) + CountOutcome(Tail(tests), o)

RECURSIVE OutcomeItems(_, _, _)
OutcomeItems(tests, i, seen) ==
  IF i > Len(tests) THEN <<>>
  ELSE IF tests[i].outcome \in seen THEN OutcomeItems(tests, i + 1, seen)
  ELSE <<Item(tests[i].outcome, CountOutcome(tests, tests[i].outcome))>>
         \o OutcomeItems(tests, i + 1, seen \cup {tests[i].outcome})

SummaryOf(tests) ==
  OutcomeItems(tests, 1, {})
    \o <<Item(S_total, Len(tests)), Item(S_collected, Len(tests))>>

EmptyReport == [summary |-> <<>>, tests |-> <<>>]

\* ------------------------------------------------------------------- state
Idle ==
  /\ details = <<>>
  /\ report = EmptyReport
  /\ path_name = MkPath(<<>>, <<>>)
  /\ ret = NotCalled
  /\ empty = FALSE
  /\ test_run_details = <<>>
  /\ failing_test_details = <<>>
  /\ failing_test_path = NoneValue
  /\ return_code = 0
  /\ console = <<>>
  /\ exit_code = -1

\* --------------------------------------------------------- the run command
Init == pc = "start" /\ Idle

ShowParameters ==
  /\ pc = "start"
  /\ console' = Append(console, "Parameter Information")
  /\ pc' = "pytest"
  /\ UNCHANGED <<details, report, path_name, ret, empty, test_run_details,
                 failing_test_details, failing_test_path, return_code, exit_code>>

RunPytest ==
  /\ pc = "pytest"
  /\ \E t \in TestSeqs : report' = [summary |-> SummaryOf(t), tests |-> t]
  /\ pc' = "summary"
  /\ UNCHANGED <<details, path_name, ret, empty, test_run_details,
                 failing_test_details, failing_test_path, return_code, console,
                 exit_code>>

ShowTestOutput ==
  /\ pc = "summary"
  /\ test_run_details' = extract_test_run_details(report)
  /\ console' = Append(console, "Test output")
  /\ pc' = "failing"
  /\ UNCHANGED <<details, report, path_name, ret, empty,
                 failing_test_details, failing_test_path, return_code, exit_code>>

ShowFailingTests ==
  /\ pc = "failing"
  /\ LET r == extract_failing_test_details(report) IN
       IF r.kind = "raise"
       THEN /\ ret' = r
            /\ pc' = "crashed"
            /\ UNCHANGED <<failing_test_details, failing_test_path, return_code,
                           console>>
       ELSE /\ ret' = r
            /\ failing_test_details' = r.value[1]
            /\ failing_test_path' = r.value[2]
            /\ IF ~is_failing_test_details_empty(r.value[1])
               THEN /\ console' = Append(console, "Failing test details")
                    /\ return_code' = 1
                    /\ pc' = "symbex"
               ELSE /\ pc' = "report"
                    /\ UNCHANGED <<return_code, console>>
  /\ UNCHANGED <<details, report, path_name, empty, test_run_details, exit_code>>

\* subprocess.run(..., check=True) raises when symbex exits non-zero
RunSymbex ==
  /\ pc = "symbex"
  /\ \E ok \in BOOLEAN :
       IF ok
       THEN /\ console' = Append(console, "Failing test code")
            /\ pc' = "report"
            /\ ret' = ret
       ELSE /\ ret' = Raise("CalledProcessError", "symbex")
            /\ pc' = "crashed"
            /\ console' = console
  /\ UNCHANGED <<details, report, path_name, empty, test_run_details,
                 failing_test_details, failing_test_path, return_code, exit_code>>

\* mutant: exits without the return code
PrintReport_exit0 ==
  /\ pc = "report"
  /\ console' = Append(console, "report")
  /\ exit_code' = 0
  /\ pc' = "exited"
  /\ UNCHANGED <<details, report, path_name, ret, empty, test_run_details,
                 failing_test_details, failing_test_path, return_code>>

PrintReport ==
  /\ pc = "report"
  /\ console' = Append(console, "report")
  /\ exit_code' = return_code
  /\ pc' = "exited"
  /\ UNCHANGED <<details, report, path_name, ret, empty, test_run_details,
                 failing_test_details, failing_test_path, return_code>>

Next ==
  \/ ShowParameters
  \/ RunPytest
  \/ ShowTestOutput
  \/ ShowFailingTests
  \/ RunSymbex
  \/ PrintReport

Spec == Init /\ [][Next]_vars

\* ------------------------------------- extract_details called on a mapping
InitDetails ==
  /\ pc = "call"
  /\ details \in Summaries
  /\ report = EmptyReport
  /\ path_name = MkPath(<<>>, <<>>)
  /\ ret = NotCalled
  /\ empty = FALSE
  /\ test_run_details = <<>>
  /\ failing_test_details = <<>>
  /\ failing_test_path = NoneValue
  /\ return_code = 0
  /\ console = <<>>
  /\ exit_code = -1

CallExtractDetails ==
  /\ pc = "call"
  /\ ret' = Return(extract_details(details))
  /\ pc' = "extract_details"
  /\ UNCHANGED <<details, report, path_name, empty, test_run_details,
                 failing_test_details, failing_test_path, return_code, console,
                 exit_code>>

CallExtractTestRunDetails ==
  /\ pc = "call"
  /\ report' = [summary |-> details, tests |-> <<>>]
  /\ ret' = Return(extract_test_run_details(report'))
  /\ pc' = "extract_test_run_details"
  /\ UNCHANGED <<details, path_name, empty, test_run_details,
                 failing_test_details, failing_test_path, return_code, console,
                 exit_code>>

NextDetails == CallExtractDetails \/ CallExtractTestRunDetails

SpecDetails == InitDetails /\ [][NextDetails]_vars

\* ------------------------ extract_failing_test_details called on a report
InitFailing ==
  /\ pc = "call"
  /\ details = <<>>
  /\ report \in {[summary |-> <<>>, tests |-> t] : t \in TestSeqs}
  /\ path_name = MkPath(<<>>, <<>>)
  /\ ret = NotCalled
  /\ empty = FALSE
  /\ test_run_details = <<>>
  /\ failing_test_details = <<>>
  /\ failing_test_path = NoneValue
  /\ return_code = 0
  /\ console = <<>>
  /\ exit_code = -1

CallExtractFailing ==
  /\ pc = "call"
  /\ ret' = extract_failing_test_details(report)
  /\ pc' = "extracted"
  /\ UNCHANGED <<details, report, path_name, empty, test_run_details,
                 failing_test_details, failing_test_path, return_code, console,
                 exit_code>>

CallIsEmpty ==
  /\ pc = "extracted"
  /\ ret.kind = "return"
  /\ empty' = is_failing_test_details_empty(ret.value[1])
  /\ pc' = "checked"
  /\ UNCHANGED <<details, report, path_name, ret, test_run_details,
                 failing_test_details, failing_test_path, return_code, console,
                 exit_code>>

NextFailing == CallExtractFailing \/ CallIsEmpty

SpecFailing == InitFailing /\ [][NextFailing]_vars

\* -------------------------------------------- path_to_string called on a path
InitPath ==
  /\ pc = "call"
  /\ details = <<>>
  /\ report = EmptyReport
  /\ path_name \in Paths
  /\ ret = NotCalled
  /\ empty = FALSE
  /\ test_run_details = <<>>
  /\ failing_test_details = <<>>
  /\ failing_test_path = NoneValue
  /\ return_code = 0
  /\ console = <<>>
  /\ exit_code = -1

CallPathToString ==
  /\ pc = "call"
  /\ ret' = Return(path_to_string(path_name, DefaultLevels))
  /\ pc' = "path_to_string"
  /\ UNCHANGED <<details, report, path_name, empty, test_run_details,
                 failing_test_details, failing_test_path, return_code, console,
                 exit_code>>

NextPath == CallPathToString

SpecPath == InitPath /\ [][NextPath]_vars

\* ====================================================================
\* Properties
\* ====================================================================

\* ------------------------------------------------ reading a rendering back
IsNumber(s) == Len(s) > 0 /\ \A i \in 1..Len(s) : \E d \in 0..9 : Digits[d + 1] = s[i]

DigitValue(c) == CHOOSE d \in 0..9 : Digits[d + 1] = c

RECURSIVE ParseDigits(_, _, _)
ParseDigits(s, i, n) ==
  IF i > Len(s) THEN n ELSE ParseDigits(s, i + 1, 10 * n + DigitValue(s[i]))

\* "<value> <key>" read back as an item; Item(<<>>, -1) when it has another shape
ParseItem(s) ==
  LET p == Split(s, S_Space) IN
    IF Len(p) = 2 /\ IsNumber(p[1]) THEN Item(p[2], ParseDigits(p[1], 1, 0))
    ELSE Item(<<>>, -1)

HasPrefix(s, prefix) == Len(s) >= Len(prefix) /\ SubSeq(s, 1, Len(prefix)) = prefix

DropPrefix(s, prefix) == SubSeq(s, Len(prefix) + 1, Len(s))

IsFailed(t) == t.outcome = S_failed

FailedTests(tests) == SelectSeq(tests, IsFailed)

HasCrash(t) == t.call.present /\ t.call.crash.present

WellFormed(tests) == \A i \in 1..Len(tests) : IsFailed(tests[i]) => HasCrash(tests[i])

RECURSIVE SumLen(_)
SumLen(names) == IF Len(names) = 0 THEN 0 ELSE Len(names[1]) + SumLen(Tail(names))

Done(op) == pc = op /\ ret.kind = "return"

\* ---------------------------------------------------------------------- C1
\* C1: for the empty mapping extract_details returns the empty string, and
\* so does extract_test_run_details on a report whose summary is empty.
C1_EmptyMappingGivesEmptyString ==
  ((Done("extract_details") /\ details = <<>>)
     \/ (Done("extract_test_run_details") /\ report.summary = <<>>))
    => ret.value = <<>>

\* ---------------------------------------------------------------------- C2
\* C2: for a non-empty summary extract_test_run_details returns "Details: "
\* followed by the ", "-separated items, and reading the items back as
\* "<value> <key>" gives exactly the entries of the summary, in its order.
C2_SummaryRenderedExactly ==
  (Done("extract_test_run_details") /\ report.summary # <<>>)
    => /\ HasPrefix(ret.value, S_Details)
       /\ LET items == Split(DropPrefix(ret.value, S_Details), S_CommaSpace) IN
            /\ Len(items) = Len(report.summary)
            /\ \A i \in 1..Len(items) : ParseItem(items[i]) = report.summary[i]

C2_Witness ==
  /\ Done("extract_test_run_details")
  /\ Len(report.summary) = 2
  /\ report.summary[1] = Item(S_total, 0)
  /\ report.summary[2] = Item(S_failed, 13)

\* ---------------------------------------------------------------------- C3
IsEmptyList(v) == v.type = "list" /\ v.items = <<>>

\* C3: when no test has outcome "failed", extract_failing_test_details
\* returns the pair of the single-newline string and an empty list.
C3_NoFailureGivesSentinelAndEmptyList ==
  (pc = "extracted" /\ FailedTests(report.tests) = <<>>)
    => /\ ret.kind = "return"
       /\ ret.value[1] = <<NL>>
       /\ IsEmptyList(ret.value[2])

\* ---------------------------------------------------------------------- C4
IsNameLine(l) == HasPrefix(l, S_Name)

NameLines(str) == SelectSeq(Split(str, <<NL>>), IsNameLine)

TestName(nodeid) ==
  LET p == Split(nodeid, <<":", ":">>) IN p[Len(p)]

\* C4: the second component is a list with one {test_name, test_path} entry
\* per failed test, as many as there are "Name:" blocks and in their order,
\* the i-th test_name being the i-th failing nodeid after its last "::".
C4_OneEntryPerFailingTest ==
  (pc = "extracted" /\ ret.kind = "return")
    => LET second == ret.value[2]
           failed == FailedTests(report.tests)
       IN /\ second.type = "list"
          /\ Len(second.items) = Len(failed)
          /\ Len(second.items) = Len(NameLines(ret.value[1]))
          /\ \A i \in 1..Len(failed) :
               second.items[i].test_name = TestName(failed[i].nodeid)

\* ---------------------------------------------------------------------- C5
\* C5: tests whose outcome is not "failed" contribute nothing: the result
\* is the result for the report with those tests removed.
C5_NonFailedTestsIgnored ==
  pc = "extracted"
    => ret = extract_failing_test_details(
                [report EXCEPT !.tests = FailedTests(report.tests)])

C5_Witness ==
  /\ pc = "extracted"
  /\ ret.kind = "return"
  /\ Len(report.tests) = 2
  /\ report.tests[1].outcome = S_error
  /\ HasCrash(report.tests[1])
  /\ IsFailed(report.tests[2])

\* ---------------------------------------------------------------------- C6
Malformed(t) == IsFailed(t) /\ ~HasCrash(t)

\* C6: a failed test without call, or whose call has no crash, makes the
\* call raise the lookup error of the missing key; nothing is returned.
C6_MissingCrashRaises ==
  (pc \in {"extracted", "checked"}
     /\ \E i \in 1..Len(report.tests) : Malformed(report.tests[i]))
    => /\ pc = "extracted"
       /\ ret.kind = "raise"
       /\ ret.exc = "KeyError"
       /\ LET first == CHOOSE i \in 1..Len(report.tests) :
                         /\ Malformed(report.tests[i])
                         /\ \A j \in 1..(i - 1) : ~Malformed(report.tests[j])
          IN ret.arg = IF report.tests[first].call.present THEN "crash" ELSE "call"

C6_Witness ==
  /\ pc = "extracted"
  /\ ret.kind = "raise"
  /\ Len(report.tests) = 2
  /\ IsFailed(report.tests[1]) /\ HasCrash(report.tests[1])
  /\ IsFailed(report.tests[2]) /\ report.tests[2].call = Call(Missing)

\* ---------------------------------------------------------------------- C7
PosixLen(p) ==
  IF p.anchor = <<>> /\ p.names = <<>> THEN 1
  ELSE Len(p.anchor) + SumLen(p.names)
         + (IF Len(p.names) > 1 THEN Len(p.names) - 1 ELSE 0)

Shown(title) == \E i \in 1..Len(console) : console[i] = title

\* C8: a run that reaches its end exits with 1 when some test failed and
\* with 0 otherwise; the failing-test panel and the source lookup were done
\* exactly when it exits with 1.
C8_ExitCodeTellsFailure ==
  pc = "exited"
    => /\ exit_code = (IF FailedTests(report.tests) # <<>> THEN 1 ELSE 0)
       /\ (Shown("Failing test details") <=> exit_code = 1)
       /\ (Shown("Failing test code") <=> exit_code = 1)

C8_Witness ==
  /\ pc = "exited"
  /\ exit_code = 1
  /\ Shown("Failing test code")
  /\ Len(report.tests) = 2
  /\ ~IsFailed(report.tests[1])

\* ---------------------------------------------------------------------- C9
BlockLines(t) ==
  <<S_Name \o t.nodeid,
    S_Path \o path_to_string(Path(<<t.call.crash.path>>), 4),
    S_LineNumber \o Str(t.call.crash.lineno)>>
    \o Split(S_Message \o t.call.crash.message, <<NL>>)

\* the lines of the blocks of the failed tests, in report order
RECURSIVE AllBlockLines(_)
AllBlockLines(tests) ==
  IF Len(tests) = 0 THEN <<>>
  ELSE (IF IsFailed(tests[1]) THEN BlockLines(tests[1]) ELSE <<>>)
         \o AllBlockLines(Tail(tests))

NotBlank(l) == l # <<>>

\* C9 as stated: the Name, Path, Line number and Message lines of the
\* failed tests appear in report order, and a blank line separates each
\* block from the next.
C9_BlocksSeparatedByBlankLine ==
  (pc = "extracted" /\ ret.kind = "return")
    => LET lines == Split(ret.value[1], <<NL>>) IN
         /\ SelectSeq(lines, NotBlank) = AllBlockLines(report.tests)
         /\ \A i \in 2..Len(lines) :
              (IsNameLine(lines[i]) /\ \E j \in 1..(i - 1) : IsNameLine(lines[j]))
                => lines[i - 1] = <<>>

\* C9 amended: the lines of the display string are the empty line of the
\* leading newline, then the Name, Path, Line number and Message lines of
\* each failed test in report order, each block directly after the one
\* before it, then nothing after the final newline.
C9_BlocksInOrderNoSeparator ==
  (pc = "extracted" /\ ret.kind = "return")
    => Split(ret.value[1], <<NL>>)
         = <<<<>>>> \o AllBlockLines(report.tests) \o <<<<>>>>

C9_Witness ==
  /\ pc = "extracted"
  /\ ret.kind = "return"
  /\ Len(report.tests) = 2
  /\ IsFailed(report.tests[1]) /\ IsFailed(report.tests[2])
  /\ report.tests[1].call.crash.lineno = 7
  /\ report.tests[2].call.crash.lineno = 10

\* --------------------------------------------------------------------- C10
\* C10: on the display string of a report whose failed tests all carry
\* crash data, is_failing_test_details_empty is true exactly when no test
\* has outcome "failed".
C10_SentinelIffNoFailure ==
  (pc = "checked" /\ WellFormed(report.tests))
    => (empty <=> FailedTests(report.tests) = <<>>)

C10_Witness ==
  /\ pc = "checked"
  /\ empty
  /\ Len(report.tests) = 2
  /\ report.tests[1].outcome = S_error
  /\ HasCrash(report.tests[1])

====
